---------------------------- MODULE Spec2Model ----------------------------
(***************************************************************************)
(* agentvault: the docs table, its FTS5 index docs_fts kept by triggers,   *)
(* the ingestion writer (src/index/build_index.py) and the search reader   *)
(* (src/agent/run.py).                                                     *)
(*                                                                         *)
(* A text is a sequence of lexemes (words and punctuation, as separated by *)
(* white space).  The writer works on its connection's view `conn`; what   *)
(* any other connection sees is the committed database `disk`.             *)
(*                                                                         *)
(* Spec lets every read of a file of the vault find any content; SpecFixed *)
(* holds the files of the vault fixed, so that its runs are re-runs.       *)
(***************************************************************************)
EXTENDS Integers, Sequences, FiniteSets, TLC

VARIABLES
    fs,      \* data/agentvault.sqlite: "nodir", "empty" (no tables), "ready"
    disk,    \* the committed database: [docs, fts]
    conn,    \* the writer connection's view (its open transaction included)
    pc,      \* build_index.main: "idle", "opened", "chatgpt", "perplexity"
    todo,    \* files of the current pass that rglob has still to yield
    cur,     \* the conversations JSON file whose generator is being iterated
    clock,   \* number of upsert_doc calls so far; the reading of datetime.now
    exit,    \* how the last run of build_index.main ended
    last,    \* the run's last upsert_doc call: arguments, branch, value returned
    reader,  \* the search, if any, made since the writer's last step
    vault,   \* the files under vault/, where a behaviour holds them fixed
    yielded, \* conversations that the generator being iterated has yielded
    ingested, \* the counts n of ingest_chatgpt and ingest_perplexity of a run
    done     \* a run has ingested the fixed files and committed both passes

vars == <<fs, disk, conn, pc, todo, cur, clock, exit, last, reader,
          vault, yielded, ingested, done>>

\* The number of upsert_doc calls a behaviour makes.
MaxClock == 3

\* The number of conversations in a conversations JSON file held fixed.
MaxConversations == 2

-----------------------------------------------------------------------------
(* Texts *)

QUOTE == "\""
SUR == "\\ud800"    \* a lone surrogate, as json.loads yields from "\ud800"
NULL == "NULL"

\* Lexemes that the unicode61 tokenizer turns into a token.
IsWord(w) == w \notin {"-", QUOTE, SUR}

Fold(w) ==
    CASE w = "A" -> "a"
      [] w = "AND" -> "and"
      [] w = "ChatGPT" -> "chatgpt"
      [] w = "Perplexity" -> "perplexity"
      [] OTHER -> w

Tokenize(text) ==
    LET kept == SelectSeq(text, IsWord)
    IN  [i \in 1..Len(kept) |-> Fold(kept[i])]

Encodable(c) == c # SUR

\* text.encode("utf-8", errors="ignore") drops what UTF-8 cannot encode; the
\* digest of the bytes is taken to be collision free, so it is the bytes.
_sha256(text) == SelectSeq(text, Encodable)

\* sqlite3 binds a str parameter as UTF-8 and raises UnicodeEncodeError on a
\* lone surrogate.
Bindable(text) == \A i \in 1..Len(text) : Encodable(text[i])

-----------------------------------------------------------------------------
(* The schema: docs, docs_fts and the triggers *)

EmptyDb == [docs |-> {}, fts |-> {}]

\* What FTS5 indexes for one row: the tokens of the two indexed columns,
\* each with its position (source and path are UNINDEXED).
Postings(id, title, content) ==
    {[rowid |-> id, col |-> "title", pos |-> i, term |-> Tokenize(title)[i]] :
        i \in 1..Len(Tokenize(title))}
    \cup
    {[rowid |-> id, col |-> "content", pos |-> i, term |-> Tokenize(content)[i]] :
        i \in 1..Len(Tokenize(content))}

\* INSERT INTO docs_fts(rowid, title, content, ...)
fts_insert(fts, id, title, content) == fts \cup Postings(id, title, content)

\* INSERT INTO docs_fts(docs_fts, rowid, title, content, ...) VALUES('delete', ...):
\* removes the postings of the values it is given.
fts_delete(fts, id, title, content) == fts \ Postings(id, title, content)

docs_ai(fts, new) == fts_insert(fts, new.id, new.title, new.content)

\* docs_au with the 'delete' given the new values of the row.
docs_au_stale(fts, old, new) ==
    fts_insert(fts_delete(fts, old.id, new.title, new.content),
               new.id, new.title, new.content)

docs_au(fts, old, new) ==
    fts_insert(fts_delete(fts, old.id, old.title, old.content),
               new.id, new.title, new.content)

\* id INTEGER PRIMARY KEY: the rowid SQLite gives an INSERT that names none.
NextId(docs) ==
    IF docs = {} THEN 1
    ELSE (CHOOSE m \in {r.id : r \in docs} : \A r \in docs : r.id <= m) + 1

-----------------------------------------------------------------------------
(* upsert_doc *)

\* A lookup that leaves the path out of the key.
SelectByKey_source(docs, source, path) ==
    {r \in docs : r.source = source}

\* A SELECT whose WHERE clause matches no row.
SelectByKey_none(docs, source, path) == {}

\* SELECT id, sha256 FROM docs WHERE source=? AND path=?
SelectByKey(docs, source, path) ==
    {r \in docs : r.source = source /\ r.path = path}

\* fetchone(): the first row of the scan, which goes by rowid.
fetchone(rows) == CHOOSE r \in rows : \A s \in rows : r.id <= s.id

\* An UPDATE whose SET list lacks created_at.
UpdateRow_keepcreated(row, title, created_at, content, sha, ingested_at) ==
    [row EXCEPT !.title = title, !.content = content, !.sha256 = sha,
                !.ingested_at = ingested_at]

\* An UPDATE whose SET list lacks sha256.
UpdateRow_keepsha(row, title, created_at, content, sha, ingested_at) ==
    [row EXCEPT !.title = title, !.created_at = created_at,
                !.content = content, !.ingested_at = ingested_at]

\* UPDATE docs SET title=?, created_at=?, content=?, sha256=?, ingested_at=?
UpdateRow(row, title, created_at, content, sha, ingested_at) ==
    [row EXCEPT !.title = title, !.created_at = created_at,
                !.content = content, !.sha256 = sha,
                !.ingested_at = ingested_at]

\* INSERT INTO docs(source, path, title, created_at, content, sha256, ingested_at)
InsertRow(docs, source, path, title, created_at, content, sha, ingested_at) ==
    [id |-> NextId(docs), source |-> source, path |-> path, title |-> title,
     created_at |-> created_at, content |-> content, sha256 |-> sha,
     ingested_at |-> ingested_at]

Raised(db) == [db |-> db, branch |-> "raised", ret |-> "exception"]

\* upsert_doc without the early return of line 101-102.
upsert_doc_always(db, source, path, title, created_at, content, now, io) ==
    LET sha == _sha256(content)
        rows == SelectByKey(db.docs, source, path)
        row == fetchone(rows)
    IN  IF ~io THEN Raised(db)
        ELSE IF ~Bindable(content) THEN Raised(db)
        ELSE IF rows # {}
        THEN LET new == UpdateRow(row, title, created_at, content, sha, now)
             IN  [db |-> [docs |-> (db.docs \ {row}) \cup {new},
                          fts |-> docs_au(db.fts, row, new)],
                  branch |-> "updated", ret |-> "None"]
        ELSE LET new == InsertRow(db.docs, source, path, title, created_at,
                                  content, sha, now)
             IN  [db |-> [docs |-> db.docs \cup {new},
                          fts |-> docs_ai(db.fts, new)],
                  branch |-> "created", ret |-> "None"]

\* io: whether the storage calls of this upsert_doc succeed.  The statement
\* with its trigger is atomic: a failed one changes nothing.
upsert_doc(db, source, path, title, created_at, content, now, io) ==
    LET sha == _sha256(content)
        rows == SelectByKey(db.docs, source, path)
        row == fetchone(rows)
    IN  IF ~io THEN Raised(db)
        ELSE IF rows # {} /\ row.sha256 = sha
        THEN [db |-> db, branch |-> "unchanged", ret |-> "None"]
        ELSE IF ~Bindable(content) THEN Raised(db)
        ELSE IF rows # {}
        THEN LET new == UpdateRow(row, title, created_at, content, sha, now)
             IN  [db |-> [docs |-> (db.docs \ {row}) \cup {new},
                          fts |-> docs_au(db.fts, row, new)],
                  branch |-> "updated", ret |-> "None"]
        ELSE LET new == InsertRow(db.docs, source, path, title, created_at,
                                  content, sha, now)
             IN  [db |-> [docs |-> db.docs \cup {new},
                          fts |-> docs_ai(db.fts, new)],
                  branch |-> "created", ret |-> "None"]

-----------------------------------------------------------------------------
(* search: the FTS5 MATCH of run.py *)

DefaultLimit == 8

\* The index of the quote that closes the string opened before i, or 0.
StringEnd(q, i) ==
    LET js == {j \in i..Len(q) : q[j] = QUOTE}
    IN  IF js = {} THEN 0 ELSE CHOOSE j \in js : \A k \in js : j <= k

\* FTS5's query lexer over the lexemes of a query: a bareword is a phrase of
\* one token, a quoted string a phrase of its tokens, anything else is no
\* part of an expression.  The bareword AND is the operator between two
\* phrases, which asks what their juxtaposition asks; it is a syntax error
\* where no phrase stands before it or after it.  (OR, NOT, NEAR, column
\* filters and the prefix star are not among the queries modelled, nor is
\* the doubled quote inside a string.)
RECURSIVE fts5Lex(_, _, _)
fts5Lex(q, i, phrases) ==
    IF i > Len(q) THEN [ok |-> TRUE, phrases |-> phrases, err |-> ""]
    ELSE IF q[i] = QUOTE
    THEN LET close == StringEnd(q, i + 1)
         IN  IF close = 0
             THEN [ok |-> FALSE, phrases |-> <<>>, err |-> "unterminated string"]
             ELSE fts5Lex(q, close + 1,
                          Append(phrases, Tokenize(SubSeq(q, i + 1, close - 1))))
    ELSE IF q[i] = "AND"
    THEN IF phrases = <<>> \/ i = Len(q) \/ q[i + 1] = "AND"
         THEN [ok |-> FALSE, phrases |-> <<>>, err |-> "fts5: syntax error"]
         ELSE fts5Lex(q, i + 1, phrases)
    ELSE IF IsWord(q[i])
    THEN fts5Lex(q, i + 1, Append(phrases, <<Fold(q[i])>>))
    ELSE [ok |-> FALSE, phrases |-> <<>>, err |-> "fts5: syntax error"]

\* An expression holds at least one phrase.
fts5Parse(q) ==
    LET r == fts5Lex(q, 1, <<>>)
    IN  IF r.ok /\ r.phrases = <<>>
        THEN [ok |-> FALSE, phrases |-> <<>>, err |-> "fts5: syntax error"]
        ELSE r

\* The tokens of phrase ph stand next to each other, in order, in one column.
HasPhrase(fts, id, ph) ==
    \E x \in fts :
        /\ x.rowid = id
        /\ \A k \in 1..Len(ph) :
              [rowid |-> id, col |-> x.col, pos |-> x.pos + k - 1, term |-> ph[k]]
                  \in fts

\* docs_fts MATCH ?: the rowids whose postings hold every phrase (implicit
\* AND); an empty phrase asks nothing, and only empty phrases match nothing.
fts5Match(fts, phrases) ==
    LET asked == {k \in 1..Len(phrases) : phrases[k] # <<>>}
    IN  IF asked = {} THEN {}
        ELSE {id \in {x.rowid : x \in fts} :
                \A k \in asked : HasPhrase(fts, id, phrases[k])}

\* The number of places of row id at which phrase ph stands.
PhraseCount(fts, id, ph) ==
    Cardinality({x \in fts :
        /\ x.rowid = id
        /\ \A k \in 1..Len(ph) :
              [rowid |-> id, col |-> x.col, pos |-> x.pos + k - 1, term |-> ph[k]]
                  \in fts})

\* The number of tokens of row id.
DocLen(fts, id) == Cardinality({x \in fts : x.rowid = id})

\* bm25(docs_fts) with the default weights: the sum over the phrases of
\* idf * tf * (k1 + 1) / (tf + k1 * (1 - b + b * dl / avgdl)), negated, where
\* k1 = 1.2, b = 0.75, avgdl is tokens per row and idf is positive and the
\* same for every row.  For one phrase, row a is ranked no worse than row b
\* exactly when tf_a * (T + 3 * N * dl_b) >= tf_b * (T + 3 * N * dl_a), with
\* N the rows and T the tokens of the index.
NoWorse(fts, ph, a, b) ==
    LET N == Cardinality({x.rowid : x \in fts})
        T == Cardinality(fts)
    IN  PhraseCount(fts, a, ph) * (T + 3 * N * DocLen(fts, b))
            >= PhraseCount(fts, b, ph) * (T + 3 * N * DocLen(fts, a))

\* Row a has the better bm25 than row b whatever the idf of the phrases:
\* it is no worse for every phrase and b is worse for one.
Better(fts, phrases, a, b) ==
    LET asked == {k \in 1..Len(phrases) : phrases[k] # <<>>}
    IN  /\ \A k \in asked : NoWorse(fts, phrases[k], a, b)
        /\ \E k \in asked : ~NoWorse(fts, phrases[k], b, a)

\* ORDER BY bm25(docs_fts): the orders in which the rows can come.  The
\* statement names no second key, so rows of equal bm25 come in any order.
Ranked(fts, phrases, rows) ==
    {f \in [1..Cardinality(rows) -> rows] :
        /\ \A i, j \in DOMAIN f : i # j => f[i] # f[j]
        /\ \A i, j \in DOMAIN f :
              i < j => ~Better(fts, phrases, f[j].id, f[i].id)}

Hit(d) == [source |-> d.source, path |-> d.path, title |-> d.title]

\* FROM docs_fts JOIN docs d ON d.id = docs_fts.rowid WHERE docs_fts MATCH ?
SearchRows(db, phrases) ==
    {d \in db.docs : d.id \in fts5Match(db.fts, phrases)}

\* search(conn, query, limit): the outcomes it can have on database state
\* file (fs) and contents (db).  LIMIT keeps the first `limit` rows of the
\* order; a negative limit keeps all.  `ranked` is the list returned, `hits`
\* its members.
search(file, db, query, limit) ==
    IF file = "nodir"
    THEN {[status |-> "raised", err |-> "unable to open database file",
           query |-> query, hits |-> {}, ranked |-> <<>>]}
    ELSE IF file = "empty"
    THEN {[status |-> "raised", err |-> "no such table: docs_fts",
           query |-> query, hits |-> {}, ranked |-> <<>>]}
    ELSE LET parsed == fts5Parse(query)
             rows == SearchRows(db, parsed.phrases)
             n == IF limit < 0 \/ Cardinality(rows) <= limit
                  THEN Cardinality(rows) ELSE limit
         IN  IF ~parsed.ok
             THEN {[status |-> "raised", err |-> parsed.err,
                    query |-> query, hits |-> {}, ranked |-> <<>>]}
             ELSE {[status |-> "ok", err |-> "", query |-> query,
                    hits |-> {Hit(f[i]) : i \in 1..n},
                    ranked |-> [i \in 1..n |-> Hit(f[i])]] :
                      f \in Ranked(db.fts, parsed.phrases, rows)}

-----------------------------------------------------------------------------
(* The vault, and what the producers can yield from it *)

HtmlFiles == {"vault/chatgpt/a.html"}
JsonFiles == {"vault/chatgpt/conversations.json"}
ChatgptFiles == HtmlFiles \cup JsonFiles
PerplexityFiles == {"vault/perplexity/p.md"}

\* path.name
Name(p) ==
    CASE p = "vault/chatgpt/a.html" -> "a.html"
      [] p = "vault/chatgpt/conversations.json" -> "conversations.json"
      [] p = "vault/perplexity/p.md" -> "p.md"

Doc(title, created_at, content) ==
    [title |-> title, created_at |-> created_at, content |-> content]

\* ingest_chatgpt_html(path): the documents it can yield, one per file, with
\* the title f"ChatGPT export: {path.name}" and no created_at.
ingest_chatgpt_html(p) ==
    {Doc(<<"ChatGPT", "export", "-", Name(p)>>, NULL, content) :
        content \in {<<"a", "c">>, <<"b", "-", "A">>}}

\* ingest_chatgpt_conversations_json(path): the conversations it can yield.
\* The title is c.get("title") or "ChatGPT conversation", created_at the ISO
\* form of create_time or None, the content the joined message parts (which
\* json.loads can give a lone surrogate).
ingest_chatgpt_conversations_json(p) ==
    {Doc(<<"b">>, "2024-01-01T00:00:00+00:00", <<"a", "c">>),
     Doc(<<"ChatGPT", "conversation">>, NULL, <<"b", "-", "A">>),
     Doc(<<"b">>, NULL, <<"a", "c", SUR>>)}

\* ingest_perplexity_markdown(path): the title is the first heading or
\* f"Perplexity export: {path.name}".
ingest_perplexity_markdown(p) ==
    {Doc(<<"b">>, NULL, <<"a", "c">>),
     Doc(<<"Perplexity", "export", "-", Name(p)>>, NULL, <<"b", "AND", "A">>)}

Files == ChatgptFiles \cup PerplexityFiles

\* The documents that reading file p can give: an .html, .md or .txt file
\* gives one document, a conversations JSON file one for each conversation.
FileContents(p) ==
    IF p \in HtmlFiles THEN {<<d>> : d \in ingest_chatgpt_html(p)}
    ELSE IF p \in PerplexityFiles THEN {<<d>> : d \in ingest_perplexity_markdown(p)}
    ELSE UNION {[1..len -> ingest_chatgpt_conversations_json(p)] :
                    len \in 0..MaxConversations}

\* The files are not held fixed: each read of a file can find other content.
AnyVault == [fixed |-> FALSE, files |-> <<>>]

\* The vaults whose files stay as they are throughout a behaviour.
Vaults ==
    {[fixed |-> TRUE, files |-> f] :
        f \in UNION {{g \in [S -> UNION {FileContents(p) : p \in S}] :
                        \A p \in S : g[p] \in FileContents(p)} :
                     S \in SUBSET Files}}

\* The i-th document read from file p is doc.
Reads(p, i, doc) ==
    vault.fixed => /\ p \in DOMAIN vault.files
                   /\ i <= Len(vault.files[p])
                   /\ doc = vault.files[p][i]

\* rglob over a directory yields the files in it.
Globs(files, all) ==
    vault.fixed => files = DOMAIN vault.files \cap all

\* The query strings and limits given to run.py.
Queries == {<<"A">>, <<"AND">>, <<QUOTE, "b", "a", QUOTE>>, <<QUOTE, "a">>}
Limits == {DefaultLimit}

-----------------------------------------------------------------------------
(* State *)

NoCall ==
    [source |-> "", path |-> "", title |-> <<>>, created_at |-> NULL,
     content |-> <<>>, branch |-> "none", ret |-> "", matched |-> {}]

NoSearch ==
    [status |-> "idle", err |-> "", query |-> <<>>, hits |-> {}, ranked |-> <<>>]

NoCount == [chatgpt |-> 0, perplexity |-> 0]

InitStore ==
    /\ fs = "nodir"
    /\ disk = EmptyDb
    /\ conn = EmptyDb
    /\ pc = "idle"
    /\ todo = {}
    /\ cur = "none"
    /\ clock = 0
    /\ exit = "none"
    /\ last = NoCall
    /\ reader = NoSearch
    /\ yielded = 0
    /\ ingested = NoCount
    /\ done = FALSE

Init == InitStore /\ vault = AnyVault

\* The files of the vault do not change.
InitFixed == InitStore /\ vault \in Vaults

\* An exception leaves build_index.main: the process ends with its
\* transaction open, which SQLite rolls back.
Abort(how) ==
    /\ pc' = "idle"
    /\ exit' = how
    /\ conn' = disk
    /\ todo' = {}
    /\ cur' = "none"
    /\ yielded' = 0

\* A call of upsert_doc on a connection in autocommit mode: what the call
\* writes is committed when it returns.
Call_autocommit(source, path, title, created_at, content, io, todoNext, curNext) ==
    LET r == upsert_doc(conn, source, path, title, created_at, content,
                        clock + 1, io)
    IN  /\ clock < MaxClock
        /\ clock' = clock + 1
        /\ last' = [source |-> source, path |-> path, title |-> title,
                    created_at |-> created_at, content |-> content,
                    branch |-> r.branch, ret |-> r.ret,
                    matched |-> SelectByKey(conn.docs, source, path)]
        /\ reader' = NoSearch
        /\ IF r.branch = "raised"
           THEN Abort("store_error") /\ ingested' = ingested /\ disk' = disk
           ELSE /\ conn' = r.db
                /\ disk' = r.db
                /\ todo' = todoNext
                /\ cur' = curNext
                /\ yielded' = IF curNext = "none" THEN 0 ELSE yielded + 1
                /\ ingested' = [ingested EXCEPT ![source] = @ + 1]
                /\ UNCHANGED <<pc, exit>>
        /\ UNCHANGED <<fs, vault, done>>

\* One call of upsert_doc by an ingestion loop, which counts it (n += 1) and
\* goes on with todoNext and curNext when the call returns.
Call(source, path, title, created_at, content, io, todoNext, curNext) ==
    LET r == upsert_doc(conn, source, path, title, created_at, content,
                        clock + 1, io)
    IN  /\ clock < MaxClock
        /\ clock' = clock + 1
        /\ last' = [source |-> source, path |-> path, title |-> title,
                    created_at |-> created_at, content |-> content,
                    branch |-> r.branch, ret |-> r.ret,
                    matched |-> SelectByKey(conn.docs, source, path)]
        /\ reader' = NoSearch
        /\ IF r.branch = "raised"
           THEN Abort("store_error") /\ ingested' = ingested
           ELSE /\ conn' = r.db
                /\ todo' = todoNext
                /\ cur' = curNext
                /\ yielded' = IF curNext = "none" THEN 0 ELSE yielded + 1
                /\ ingested' = [ingested EXCEPT ![source] = @ + 1]
                /\ UNCHANGED <<pc, exit>>
        /\ UNCHANGED <<fs, disk, vault, done>>

\* _db(): mkdir data, connect (which creates the file), the PRAGMAs.
OpenDb ==
    /\ pc = "idle"
    /\ pc' = "opened"
    /\ fs' = IF fs = "nodir" THEN "empty" ELSE fs
    /\ exit' = "running"
    /\ reader' = NoSearch
    /\ ingested' = NoCount
    /\ last' = NoCall
    /\ UNCHANGED <<disk, conn, todo, cur, clock, vault, yielded, done>>

\* init_schema(conn), then main returns (--init-only) or enters
\* ingest_chatgpt, whose rglob yields the files of vault/chatgpt.
InitSchema(initOnly, files) ==
    /\ pc = "opened"
    /\ Globs(files, ChatgptFiles)
    /\ fs' = "ready"
    /\ IF initOnly
       THEN pc' = "idle" /\ exit' = "ok" /\ todo' = {}
       ELSE pc' = "chatgpt" /\ exit' = exit /\ todo' = files
    /\ reader' = NoSearch
    /\ UNCHANGED <<disk, conn, cur, clock, last, vault,
                   yielded, ingested, done>>

\* ingest_chatgpt on an .html file: the one document of ingest_chatgpt_html.
ChatgptHtml(p, doc, io) ==
    /\ pc = "chatgpt" /\ cur = "none"
    /\ p \in todo \cap HtmlFiles
    /\ doc \in ingest_chatgpt_html(p)
    /\ Reads(p, 1, doc)
    /\ Call("chatgpt", p, doc.title, doc.created_at, doc.content, io,
            todo \ {p}, "none")

\* ingest_chatgpt on a conversations .json file: json.loads succeeds and
\* the generator starts.
JsonOpen(p) ==
    /\ pc = "chatgpt" /\ cur = "none"
    /\ p \in todo \cap JsonFiles
    /\ cur' = p
    /\ todo' = todo \ {p}
    /\ reader' = NoSearch
    /\ UNCHANGED <<fs, disk, conn, pc, clock, exit, last, vault,
                   yielded, ingested, done>>

\* The generator yields the next conversation, upserted under the path of
\* the file.
JsonDoc(doc, io) ==
    /\ pc = "chatgpt" /\ cur # "none"
    /\ doc \in ingest_chatgpt_conversations_json(cur)
    /\ Reads(cur, yielded + 1, doc)
    /\ Call("chatgpt", cur, doc.title, doc.created_at, doc.content, io,
            todo, cur)

\* The generator is exhausted.
JsonEnd ==
    /\ pc = "chatgpt" /\ cur # "none"
    /\ vault.fixed => yielded = Len(vault.files[cur])
    /\ cur' = "none"
    /\ yielded' = 0
    /\ reader' = NoSearch
    /\ UNCHANGED <<fs, disk, conn, pc, todo, clock, exit, last, vault,
                   ingested, done>>

\* A producer raises on a file (unreadable, malformed JSON, a conversation
\* that is no object): nothing in the ingestion loops catches it.
ProducerFail(p) ==
    /\ pc \in {"chatgpt", "perplexity"}
    /\ \/ cur = "none" /\ p \in todo
       \/ cur = p
    /\ Abort("producer_error")
    /\ reader' = NoSearch
    /\ UNCHANGED <<fs, disk, clock, last, vault, ingested, done>>

\* conn.commit() at the end of ingest_chatgpt; ingest_perplexity starts.
CommitChatgpt(files) ==
    /\ pc = "chatgpt" /\ cur = "none" /\ todo = {}
    /\ Globs(files, PerplexityFiles)
    /\ disk' = conn
    /\ pc' = "perplexity"
    /\ todo' = files
    /\ reader' = NoSearch
    /\ UNCHANGED <<fs, conn, cur, clock, exit, last, vault,
                   yielded, ingested, done>>

\* ingest_perplexity on a .md or .txt file.
Perplexity(p, doc, io) ==
    /\ pc = "perplexity"
    /\ p \in todo
    /\ doc \in ingest_perplexity_markdown(p)
    /\ Reads(p, 1, doc)
    /\ Call("perplexity", p, doc.title, doc.created_at, doc.content, io,
            todo \ {p}, "none")

\* conn.commit() at the end of ingest_perplexity; main prints and returns.
CommitPerplexity ==
    /\ pc = "perplexity" /\ todo = {}
    /\ disk' = conn
    /\ pc' = "idle"
    /\ exit' = "ok"
    /\ done' = (done \/ vault.fixed)
    /\ reader' = NoSearch
    /\ UNCHANGED <<fs, conn, todo, cur, clock, last, vault, yielded, ingested>>

\* A search that reads the writer's open transaction instead.
Search_dirty(query, limit) ==
    /\ \E out \in search(fs, conn, query, limit) : reader' = out
    /\ UNCHANGED <<fs, disk, conn, pc, todo, cur, clock, exit, last,
                   vault, yielded, ingested, done>>

\* run.py: a search on a connection of its own, which sees what is committed.
Search(query, limit) ==
    /\ \E out \in search(fs, disk, query, limit) : reader' = out
    /\ UNCHANGED <<fs, disk, conn, pc, todo, cur, clock, exit, last,
                   vault, yielded, ingested, done>>

\* The documents the producers yield.
Docs ==
    UNION {ingest_chatgpt_html(p) : p \in HtmlFiles}
    \cup UNION {ingest_chatgpt_conversations_json(p) : p \in JsonFiles}
    \cup UNION {ingest_perplexity_markdown(p) : p \in PerplexityFiles}

Next ==
    \/ OpenDb
    \/ \E initOnly \in BOOLEAN, files \in SUBSET ChatgptFiles :
          InitSchema(initOnly, files)
    \/ \E p \in HtmlFiles, doc \in Docs, io \in BOOLEAN : ChatgptHtml(p, doc, io)
    \/ \E p \in JsonFiles : JsonOpen(p)
    \/ \E doc \in Docs, io \in BOOLEAN : JsonDoc(doc, io)
    \/ JsonEnd
    \/ \E p \in ChatgptFiles \cup PerplexityFiles : ProducerFail(p)
    \/ \E files \in SUBSET PerplexityFiles : CommitChatgpt(files)
    \/ \E p \in PerplexityFiles, doc \in Docs, io \in BOOLEAN :
          Perplexity(p, doc, io)
    \/ CommitPerplexity
    \/ \E query \in Queries, limit \in Limits : Search(query, limit)

Spec == Init /\ [][Next]_vars

\* The runs of the writer and the reader over files that do not change.
SpecFixed == InitFixed /\ [][Next]_vars

-----------------------------------------------------------------------------
(* Properties *)

Range(f) == {f[i] : i \in DOMAIN f}

\* The tokens of a row's indexed columns.
RowTerms(r) == Range(Tokenize(r.title)) \cup Range(Tokenize(r.content))

Terms == UNION {Range(Tokenize(d.title)) \cup Range(Tokenize(d.content)) : d \in Docs}

KeyRows(docs, source, path) == {r \in docs : r.source = source /\ r.path = path}

\* The step is a call of upsert_doc that returned.
UpsertReturned == clock' # clock /\ last'.ret = "None"

IndexExact(db) ==
    db.fts = UNION {Postings(r.id, r.title, r.content) : r \in db.docs}

\* C1: the index docs_fts holds the postings of exactly the current title
\* and content of every docs row, in the writer's view and in the committed
\* database alike; and the row that the last call of upsert_doc inserted or
\* updated is matched by a term exactly when the term is a token of its new
\* title or content.
C1_IndexExact ==
    /\ IndexExact(conn)
    /\ IndexExact(disk)
    /\ \A r \in KeyRows(conn.docs, last.source, last.path) :
          (last.branch \in {"created", "updated"} /\ r.ingested_at = clock)
          => \A t \in Terms :
                r.id \in fts5Match(conn.fts, <<(<<t>>)>>) <=> t \in RowTerms(r)

\* An update has replaced a row some of whose terms the new title and
\* content no longer hold, and the updated row is in the writer's view.
C1_Witness ==
    /\ last.branch = "updated"
    /\ \E old \in last.matched, r \in conn.docs :
          /\ r.id = old.id /\ r.content = last.content /\ r.ingested_at = clock
          /\ RowTerms(old) \ RowTerms(r) # {}
          /\ RowTerms(r) \ RowTerms(old) # {}

\* C2: a call of upsert_doc for a (source, path) whose stored sha256 equals
\* the digest of the supplied content, and which returns, writes nothing:
\* every row (id, title, created_at, content, sha256, ingested_at) and the
\* whole index are after the call what they were before it.
C2_UnchangedNoWrite ==
    [][(/\ UpsertReturned
        /\ \E r \in KeyRows(conn.docs, last'.source, last'.path) :
              r.sha256 = _sha256(last'.content))
       => (conn' = conn /\ disk' = disk)]_vars

\* A second call with the content of the first has returned, at a later
\* clock reading, and the row still carries the first call's ingested_at.
C2_Witness ==
    /\ last.branch = "unchanged"
    /\ \E r \in KeyRows(conn.docs, last.source, last.path) :
          /\ r.sha256 = _sha256(last.content)
          /\ r.ingested_at < clock

\* C3: once a call of upsert_doc that created or updated a document has
\* returned, a search on the reader's connection for a term of the new
\* content returns that document.
C3_ReadYourWrites ==
    LET ph == fts5Parse(reader.query).phrases
    IN  (/\ reader.status = "ok"
         /\ last.branch \in {"created", "updated"}
         /\ Len(ph) = 1 /\ Len(ph[1]) = 1
         /\ ph[1][1] \in Range(Tokenize(last.content)))
        => \E h \in reader.hits : h.source = last.source /\ h.path = last.path

\* C4: a call of upsert_doc for a (source, path) that has a row with another
\* sha256, and which returns, overwrites title, created_at, content, sha256
\* and ingested_at of exactly that row: its id, source and path stay, no row
\* is added and no other row changes; and no call of upsert_doc changes the
\* id of a row.
C4_UpdateInPlace ==
    [][UpsertReturned =>
        /\ (\E r \in KeyRows(conn.docs, last'.source, last'.path) :
               r.sha256 # _sha256(last'.content))
           => \E r \in KeyRows(conn.docs, last'.source, last'.path) :
                 conn'.docs = (conn.docs \ {r}) \cup
                    {[id |-> r.id, source |-> r.source, path |-> r.path,
                      title |-> last'.title, created_at |-> last'.created_at,
                      content |-> last'.content,
                      sha256 |-> _sha256(last'.content),
                      ingested_at |-> clock']}
        /\ \A r \in conn.docs : \E n \in conn'.docs :
              n.id = r.id /\ n.source = r.source /\ n.path = r.path]_vars

\* An update has changed title, created_at and content of a row that keeps
\* its id, beside another row.
C4_Witness ==
    /\ last.branch = "updated"
    /\ \E old \in last.matched, r \in conn.docs, other \in conn.docs :
          /\ r.id = old.id /\ r.ingested_at = clock
          /\ r.title # old.title /\ r.created_at # old.created_at
          /\ r.content # old.content
          /\ other.id # r.id

\* C5: the docs table holds at most one row for each (source, path), in the
\* writer's view and in the committed database.
C5_KeyUnique ==
    \A db \in {conn, disk} : \A r1, r2 \in db.docs :
        (r1.source = r2.source /\ r1.path = r2.path) => r1 = r2

\* A (source, path) that has a row was upserted again, beside another row.
C5_Witness ==
    /\ last.branch \in {"updated", "unchanged"}
    /\ Cardinality(conn.docs) >= 2
    /\ KeyRows(conn.docs, last.source, last.path) # {}

\* C6: the sha256 of every docs row is the digest of the content of the row.
C6_HashConsistent ==
    \A r \in conn.docs \cup disk.docs : r.sha256 = _sha256(r.content)

\* A row whose content an update has replaced has been committed.
C6_Witness ==
    /\ last.branch = "updated"
    /\ \E old \in last.matched, r \in disk.docs :
          /\ r.id = old.id /\ r.ingested_at = clock
          /\ r.content = last.content /\ r.sha256 # old.sha256

\* C7: when a producer fails on a file, the run goes on: it is still in its
\* pass, with the documents it has upserted so far.
C7_PartialFailure ==
    [][(exit = "running" /\ exit' = "producer_error")
       => (pc' = pc /\ conn' = conn)]_vars

\* C8: when a call of upsert_doc fails, the records that the earlier calls
\* of the run created or updated stay in the store as those calls left them,
\* each with the sha256 of its content.
C8_StoreErrorIsolated ==
    [][(exit = "running" /\ exit' = "store_error")
       => (/\ conn'.docs = conn.docs
           /\ \A r \in conn'.docs : r.sha256 = _sha256(r.content))]_vars

\* C9: on an initialised store, search returns a result list for every
\* query string, one with an unbalanced double quote included.
C9_SearchNeverRaises ==
    (fs = "ready" /\ reader.status # "idle") => reader.status = "ok"

\* C10: when the store holds no documents, also when it was never
\* initialised, search with a well-formed query returns an empty list.
C10_EmptyCorpus ==
    (/\ reader.status # "idle"
     /\ disk.docs = {}
     /\ fts5Parse(reader.query).ok)
    => (reader.status = "ok" /\ reader.hits = {})

\* Phrase ph stands in the token sequence toks.
TextHasPhrase(toks, ph) ==
    \E i \in 1..Len(toks) :
        /\ i + Len(ph) - 1 <= Len(toks)
        /\ \A k \in 1..Len(ph) : toks[i + k - 1] = ph[k]

\* The title or the content of row r holds every phrase that asks something.
TextMatch(r, phrases) ==
    LET asked == {k \in 1..Len(phrases) : phrases[k] # <<>>}
    IN  /\ asked # {}
        /\ \A k \in asked :
              \/ TextHasPhrase(Tokenize(r.title), phrases[k])
              \/ TextHasPhrase(Tokenize(r.content), phrases[k])

\* The writer is inside a pass.
InPass == pc \in {"chatgpt", "perplexity"}

\* C11: a search that runs beside the writer observes one complete
\* committed state: the committed index is exactly the index of the
\* committed rows, and the result holds the committed rows whose committed
\* title or content matches the query, each with its committed title, and
\* nothing of the writer's open transaction.
C11_SnapshotRead ==
    LET want == {d \in disk.docs : TextMatch(d, fts5Parse(reader.query).phrases)}
    IN  reader.status = "ok"
        => /\ IndexExact(disk)
           /\ reader.hits \subseteq {Hit(d) : d \in want}
           /\ Cardinality(want) <= DefaultLimit
                 => reader.hits = {Hit(d) : d \in want}

\* While the writer's transaction holds an update of a committed document
\* that changes its title and its terms, a search has returned the document
\* as it was committed.
C11_Witness ==
    /\ reader.status = "ok"
    /\ InPass
    /\ last.branch = "updated"
    /\ conn # disk
    /\ \E old \in last.matched :
          /\ old \in disk.docs
          /\ old.title # last.title
          /\ RowTerms(old) # Range(Tokenize(last.title)) \cup Range(Tokenize(last.content))
          /\ Hit(old) \in reader.hits

\* The words of a text as they are written.
Words(text) == {text[i] : i \in {j \in 1..Len(text) : IsWord(text[j])}}

\* C12: a search for a word that stands in the content of a committed
\* document returns the document, and a search for a word returns no
\* committed document whose title and content do not hold it.
C12_RetrievalComplete ==
    \A d \in disk.docs :
        (/\ fs = "ready"
         /\ reader.status # "idle"
         /\ Len(reader.query) = 1
         /\ IsWord(reader.query[1]))
        => /\ reader.query[1] \in Words(d.content)
                 => (reader.status = "ok" /\ Hit(d) \in reader.hits)
           /\ Fold(reader.query[1]) \notin RowTerms(d)
                 => Hit(d) \notin reader.hits

\* The committed row of a hit.
RowOf(h) == CHOOSE d \in disk.docs : d.source = h.source /\ d.path = h.path

\* C13: the list a search returns is in descending relevance, rows of
\* equal relevance the most recently ingested first, and rows of equal
\* relevance and ingested_at the lower id first.
C13_RankingOrder ==
    LET ph == fts5Parse(reader.query).phrases
    IN  reader.status = "ok"
        => \A i, j \in DOMAIN reader.ranked :
              i < j =>
                LET a == RowOf(reader.ranked[i])
                    b == RowOf(reader.ranked[j])
                IN  \/ Better(disk.fts, ph, a.id, b.id)
                    \/ /\ ~Better(disk.fts, ph, b.id, a.id)
                       /\ \/ a.ingested_at > b.ingested_at
                          \/ a.ingested_at = b.ingested_at /\ a.id < b.id

\* Two rows of db with the same content under different paths.
SameContent(r1, r2) == r1.content = r2.content /\ r1.path # r2.path

\* C14: documents of identical content under different paths are separate
\* rows with distinct ids; every call of upsert_doc that returns leaves a
\* row of its own (source, path) with the digest of its content, whatever
\* other rows hold that digest; and a search for a term of the shared
\* content returns each of the committed rows that share it.
C14_Distinct ==
    /\ [](\A db \in {conn, disk} : \A r1, r2 \in db.docs :
            (SameContent(r1, r2) /\ r1.sha256 = r2.sha256) => r1.id # r2.id)
    /\ [](LET ph == fts5Parse(reader.query).phrases
          IN  (reader.status = "ok" /\ Len(ph) = 1 /\ Len(ph[1]) = 1)
              => \A r1, r2 \in disk.docs :
                    (SameContent(r1, r2) /\ ph[1][1] \in Range(Tokenize(r1.content)))
                    => {Hit(r1), Hit(r2)} \subseteq reader.hits)
    /\ [][UpsertReturned =>
            \E r \in conn'.docs :
                /\ r.source = last'.source /\ r.path = last'.path
                /\ r.sha256 = _sha256(last'.content)]_vars

\* Three committed rows hold the same content, two under one source and one
\* under another, and a search for a term of it has returned all three.
C14_Witness ==
    /\ reader.status = "ok"
    /\ \E r1, r2, r3 \in disk.docs :
          /\ SameContent(r1, r2) /\ SameContent(r1, r3) /\ SameContent(r2, r3)
          /\ r1.source = r2.source /\ r3.source # r1.source
          /\ r1.sha256 = r2.sha256 /\ r1.sha256 = r3.sha256
          /\ r1.id # r2.id /\ r1.id # r3.id /\ r2.id # r3.id
          /\ {Hit(r1), Hit(r2), Hit(r3)} \subseteq reader.hits

\* C15: the value that a call of upsert_doc returns names its outcome:
\* created when (source, path) had no row, unchanged when its row held the
\* digest of the content, updated when its row held another digest.
C15_OutcomeReported ==
    last.branch \in {"created", "updated", "unchanged"}
    => last.ret =
          IF last.matched = {} THEN "created"
          ELSE IF \E m \in last.matched : m.sha256 = _sha256(last.content)
               THEN "unchanged" ELSE "updated"

\* The rows of a source in the committed database.
SourceRows(source) == {r \in disk.docs : r.source = source}

\* C16: once a run has ingested the files of the vault and committed both
\* passes, no step of a later run over the same files writes: the rows,
\* their ingested_at and the postings stay as they are, in the writer's
\* view and in the committed database.
C16_RerunNoOp ==
    [][done => (conn' = conn /\ disk' = disk)]_vars

\* C17: when a run that started on an empty store has printed its summary,
\* the count of each source is the number of committed rows of the source.
\* (Every call of upsert_doc so far was made by this run and returned, so
\* the store was empty when the run started.)
C17_CountMatchesStore ==
    (/\ pc = "idle" /\ exit = "ok"
     /\ clock = ingested.chatgpt + ingested.perplexity)
    => /\ ingested.chatgpt = Cardinality(SourceRows("chatgpt"))
       /\ ingested.perplexity = Cardinality(SourceRows("perplexity"))

\* The run has ended by an exception.
Aborted(e) == e \in {"producer_error", "store_error"}

\* C18: what a new connection sees is always rows with exactly their
\* postings; it changes only at the commit that ends a pass, where it
\* becomes all that the writer holds, rows and postings together; and when
\* a run aborts, what a new connection sees stays as it was, which is as it
\* was before the pass, and the writer's uncommitted rows and postings are
\* gone together.
C18_AbortConsistent ==
    /\ [](IndexExact(disk))
    /\ [][disk' # disk =>
            (InPass /\ pc' # pc /\ ~Aborted(exit') /\ disk' = conn)]_vars
    /\ [][(exit = "running" /\ Aborted(exit')) =>
            (disk' = disk /\ conn' = disk)]_vars

\* A run has aborted after an update of a committed document: the
\* committed row, with its postings, is as it was before the update, and
\* so is what the writer's connection held.
C18_Witness ==
    /\ Aborted(exit)
    /\ last.branch = "updated"
    /\ conn = disk
    /\ \E old \in last.matched :
          /\ old \in disk.docs
          /\ old.content # last.content
          /\ old.ingested_at < clock
          /\ Postings(old.id, old.title, old.content) \subseteq disk.fts
          /\ Postings(old.id, last.title, last.content) \ disk.fts # {}

=============================================================================
